---- MODULE Spec2Model ----
(***************************************************************************)
(* Empathy Engine: emotion detection (emotion.py), voice-profile           *)
(* modulation and orchestration (service.py, config.py), the pyttsx3      *)
(* synthesizer wrapper (speech.py), the SSML composer (ssml.py) and the   *)
(* HTTP layer's shared engine (api.py).                                   *)
(*                                                                         *)
(* Numbers.  Python floats are modelled as exact fixed-point integers:    *)
(* scores, bonus and intensity in hundredths (1.0 = One = 100), volumes   *)
(* in ten-thousandths (1.0 = VolOne = 10000).  Optional values are        *)
(* sequences: None is << >>, a present value x is << x >>.  Text is a     *)
(* sequence of one-character strings.                                     *)
(***************************************************************************)
EXTENDS Integers, Sequences, FiniteSets, TLC

VARIABLES
    dText,      \* SpecDetect: the text handed to EmotionDetector.detect
    dResp,      \* SpecDetect: what the remote classifier answers if it is called
    dOut,       \* SpecDetect: the outcome of detect, or NotRun
    mProfile,   \* SpecMod: the VoiceProfile handed to _modulate_parameters
    mEmotion,   \* SpecMod: the EmotionResult handed to _modulate_parameters
    mOut,       \* SpecMod: the (rate, volume, pitch) it returns, or NotModulated
    mSsml,      \* SpecMod: the SSML built from mOut, None before
    engine,     \* Spec, SpecSeq: the driver's rate, volume and pitch properties
    pitchSupported, \* Spec, SpecSeq: whether the driver accepts setProperty("pitch")
    req,        \* Spec, SpecSeq: per thread, the frame of the call it executes
    files       \* Spec, SpecSeq: the audio file at each path written so far

detectVars == <<dText, dResp, dOut>>
modVars == <<mProfile, mEmotion, mOut, mSsml>>
engineVars == <<engine, pitchSupported, req, files>>
vars == <<detectVars, modVars, engineVars>>

None == << >>
Some(x) == << x >>

One == 100
VolOne == 10000

Min(a, b) == IF a <= b THEN a ELSE b
Max(a, b) == IF a >= b THEN a ELSE b

----------------------------------------------------------------------------
(* Text handling of detect: str.strip, str.split, " ".join, str.lower,     *)
(* str.count.                                                              *)

MaxTextLen == 5

Whitespace == {" "}
Alphabet == {" ", "!", "?", "S", "o"}

\* str.lower on one character
LowerChar(c) == IF c = "S" THEN "s" ELSE IF c = "O" THEN "o" ELSE c

Lower(s) == [i \in 1..Len(s) |-> LowerChar(s[i])]

RECURSIVE LStrip(_)
LStrip(s) ==
    IF s = << >> THEN << >>
    ELSE IF Head(s) \in Whitespace THEN LStrip(Tail(s)) ELSE s

RECURSIVE RStrip(_)
RStrip(s) ==
    IF s = << >> THEN << >>
    ELSE IF s[Len(s)] \in Whitespace THEN RStrip(SubSeq(s, 1, Len(s) - 1)) ELSE s

\* str.strip()
Strip(s) == RStrip(LStrip(s))

\* str.split(): the maximal runs of non-whitespace characters, in order
RECURSIVE SplitFrom(_, _, _)
SplitFrom(s, cur, acc) ==
    IF s = << >> THEN (IF cur = << >> THEN acc ELSE Append(acc, cur))
    ELSE IF Head(s) \in Whitespace
         THEN SplitFrom(Tail(s), << >>, IF cur = << >> THEN acc ELSE Append(acc, cur))
         ELSE SplitFrom(Tail(s), Append(cur, Head(s)), acc)

Split(s) == SplitFrom(s, << >>, << >>)

\* " ".join(words)
RECURSIVE Join(_)
Join(words) ==
    IF words = << >> THEN << >>
    ELSE IF Len(words) = 1 THEN words[1]
    ELSE words[1] \o <<" ">> \o Join(Tail(words))

\* cleaned = " ".join(text.strip().split())
Clean(text) == Join(Split(Strip(text)))

\* str.count(sub): non-overlapping occurrences, scanning from the left
RECURSIVE CountFrom(_, _, _)
CountFrom(s, w, i) ==
    IF i + Len(w) - 1 > Len(s) THEN 0
    ELSE IF SubSeq(s, i, i + Len(w) - 1) = w
         THEN 1 + CountFrom(s, w, i + Len(w))
         ELSE CountFrom(s, w, i + 1)

Count(s, w) == CountFrom(s, w, 1)

EMPHASIS_WORDS ==
    << <<"r","e","a","l","l","y">>,
       <<"v","e","r","y">>,
       <<"s","o">>,
       <<"e","x","t","r","e","m","e","l","y">>,
       <<"i","n","c","r","e","d","i","b","l","y">> >>

RECURSIVE SumCounts(_, _)
SumCounts(s, words) ==
    IF words = << >> THEN 0
    ELSE Count(s, Head(words)) + SumCounts(s, Tail(words))

\* emphasis_terms = sum(cleaned.lower().count(word) for word in EMPHASIS_WORDS)
EmphasisTerms(cleaned) == SumCounts(Lower(cleaned), EMPHASIS_WORDS)

Exclamations(cleaned) == Count(cleaned, <<"!">>)
Question(cleaned) == \E i \in 1..Len(cleaned) : cleaned[i] = "?"

\* the raw sum of detect's bonus terms, in hundredths
BonusTerms(cleaned) ==
    6 * Exclamations(cleaned) + 5 * EmphasisTerms(cleaned)
        + (IF Question(cleaned) THEN 3 ELSE 0)

IntensityBonusUncapped(cleaned) == BonusTerms(cleaned)

\* intensity_bonus = min(0.3, ...)
IntensityBonus(cleaned) == Min(30, BonusTerms(cleaned))

IsBlankNoStrip(text) == text = << >>

\* if not text or not text.strip()
IsBlank(text) == text = << >> \/ Strip(text) = << >>

----------------------------------------------------------------------------
(* The classifier's answer as detect sees it: either the HTTP call fails   *)
(* (requests.RequestException: connection error, timeout, HTTP error       *)
(* status, undecodable body) or response.json() yields a JSON value.       *)
(* A JSON value is a record: kind is "dict", "list", "str", "num" or       *)
(* "null"; keys are a dict's keys; label and score are the values of a     *)
(* dict's "label" and "score" keys when it has them; items are a list's    *)
(* elements.                                                               *)

JValue(kind, keys, label, score, items) ==
    [kind |-> kind, keys |-> keys, label |-> label, score |-> score, items |-> items]

RequestFailed == JValue("RequestException", {}, "", 0, << >>)
JNull == JValue("null", {}, "", 0, << >>)
JStr == JValue("str", {}, "", 0, << >>)            \* a non-empty string
JNum == JValue("num", {}, "", 1, << >>)            \* a non-zero number
JDict(keys) == JValue("dict", keys, "", 0, << >>)
JList(items) == JValue("list", {}, "", 0, items)
Item(label, score) == JValue("dict", {"label", "score"}, label, score, << >>)
ItemNoScore(label) == JValue("dict", {"label"}, label, 0, << >>)
ItemNoLabel(score) == JValue("dict", {"score"}, "", score, << >>)

\* str.lower on a label of the classifier
LowerLabel(l) ==
    CASE l = "POSITIVE" -> "positive"
      [] l = "NEUTRAL" -> "neutral"
      [] l = "NEGATIVE" -> "negative"
      [] l = "LABEL_0" -> "label_0"
      [] l = "LABEL_1" -> "label_1"
      [] l = "LABEL_2" -> "label_2"
      [] OTHER -> l

\* Python truthiness of a JSON value: "if not data"
Falsy(data) ==
    \/ data.kind = "null"
    \/ data.kind = "list" /\ data.items = << >>
    \/ data.kind = "dict" /\ data.keys = {}
    \/ data.kind = "num" /\ data.score = 0

Raised(exc, calls, sent) ==
    [outcome |-> "raise", exc |-> exc, label |-> "", intensity |-> 0,
     primary_score |-> 0, bonus |-> 0, calls |-> calls, sent |-> sent]

Returned(label, intensity, primary, bonus, calls, sent) ==
    [outcome |-> "return", exc |-> "", label |-> label, intensity |-> intensity,
     primary_score |-> primary, bonus |-> bonus, calls |-> calls, sent |-> sent]

HasErrorFieldOnlyKey(data) == data.kind = "dict" /\ data.keys = {"error"}

\* isinstance(data, dict) and "error" in data
HasErrorField(data) == data.kind = "dict" /\ "error" \in data.keys

\* first_item = data[0] and the choice of flat_scores: the exception raised,
\* or "" when flat_scores is chosen
FlatScoresError(data) ==
    CASE data.kind = "dict" -> "KeyError"
      [] data.kind = "num" -> "TypeError"
      [] data.kind = "str" -> "RuntimeError"
      [] data.kind = "list" ->
            IF data.items[1].kind = "list" THEN ""
            ELSE IF data.items[1].kind = "dict" /\ "label" \in data.items[1].keys THEN ""
            ELSE "RuntimeError"
      [] OTHER -> "TypeError"

FlatScores(data) ==
    IF data.items[1].kind = "list" THEN data.items[1].items ELSE data.items

\* {item["label"].lower(): float(item["score"]) for item in flat_scores}:
\* the exception the first bad item raises, or ""
ItemError(item) ==
    IF item.kind # "dict" THEN "TypeError"
    ELSE IF "label" \notin item.keys THEN "KeyError"
    ELSE IF "score" \notin item.keys THEN "KeyError"
    ELSE ""

RECURSIVE ScoreMapError(_)
ScoreMapError(flat) ==
    IF flat = << >> THEN ""
    ELSE IF ItemError(Head(flat)) # "" THEN ItemError(Head(flat))
    ELSE ScoreMapError(Tail(flat))

\* the dict the comprehension builds: a later item overrides an earlier one
ScoreMap(flat) ==
    LET keys == {LowerLabel(flat[i].label) : i \in DOMAIN flat}
        last(k) == CHOOSE i \in DOMAIN flat :
                      /\ LowerLabel(flat[i].label) = k
                      /\ \A j \in DOMAIN flat : LowerLabel(flat[j].label) = k => j <= i
    IN  [k \in keys |-> flat[last(k)].score]

\* score_map.get(name) or score_map.get(fallback, 0.0)
ScoreOf(score_map, name, fallback) ==
    IF name \in DOMAIN score_map /\ score_map[name] # 0 THEN score_map[name]
    ELSE IF fallback \in DOMAIN score_map THEN score_map[fallback]
    ELSE 0

PickLabelStrict(positive_score, neutral_score, negative_score) ==
    IF positive_score > Max(neutral_score, negative_score)
    THEN [label |-> "positive", primary_score |-> positive_score]
    ELSE IF negative_score >= Max(positive_score, neutral_score)
    THEN [label |-> "negative", primary_score |-> negative_score]
    ELSE [label |-> "neutral", primary_score |-> neutral_score]

\* the if / elif / else that picks label and primary_score
PickLabel(positive_score, neutral_score, negative_score) ==
    IF positive_score >= Max(neutral_score, negative_score)
    THEN [label |-> "positive", primary_score |-> positive_score]
    ELSE IF negative_score >= Max(positive_score, neutral_score)
    THEN [label |-> "negative", primary_score |-> negative_score]
    ELSE [label |-> "neutral", primary_score |-> neutral_score]

\* intensity = min(1.0, primary_score + intensity_bonus)
Intensity(primary_score, bonus) == Min(One, primary_score + bonus)

\* EmotionDetector.detect: one call to the classifier at most
Detect(text, resp) ==
    IF IsBlank(text) THEN Returned("neutral", 0, 0, 0, 0, << >>)
    ELSE
    LET cleaned == Clean(text) IN
    IF resp.kind = "RequestException" THEN Raised("RuntimeError", 1, cleaned)
    ELSE IF HasErrorField(resp) THEN Raised("RuntimeError", 1, cleaned)
    ELSE IF Falsy(resp) THEN Raised("RuntimeError", 1, cleaned)
    ELSE IF FlatScoresError(resp) # "" THEN Raised(FlatScoresError(resp), 1, cleaned)
    ELSE IF ScoreMapError(FlatScores(resp)) # ""
         THEN Raised(ScoreMapError(FlatScores(resp)), 1, cleaned)
    ELSE
    LET score_map == ScoreMap(FlatScores(resp))
        picked == PickLabel(ScoreOf(score_map, "positive", "label_2"),
                            ScoreOf(score_map, "neutral", "label_1"),
                            ScoreOf(score_map, "negative", "label_0"))
        bonus == IntensityBonus(cleaned)
    IN  Returned(picked.label, Intensity(picked.primary_score, bonus),
                 picked.primary_score, bonus, 1, cleaned)

----------------------------------------------------------------------------
(* Inputs of detect.                                                       *)

RECURSIVE TextsOfLen(_)
TextsOfLen(n) ==
    IF n = 0 THEN {<< >>}
    ELSE {Append(t, c) : t \in TextsOfLen(n - 1), c \in Alphabet}

\* every text of at most n characters
Texts(n) == UNION {TextsOfLen(k) : k \in 0..n}

ScoreValues == {0, 40, 80, 100}
Triples == ScoreValues \X ScoreValues \X ScoreValues

CanonicalNames == <<"positive", "neutral", "negative">>
UpperNames == <<"POSITIVE", "NEUTRAL", "NEGATIVE">>
OrdinalNames == <<"LABEL_2", "LABEL_1", "LABEL_0">>
NameSchemes == {CanonicalNames, UpperNames, OrdinalNames}

\* three class scores, triple = <<positive, neutral, negative>>
ScoreList(names, triple) ==
    <<Item(names[1], triple[1]), Item(names[2], triple[2]), Item(names[3], triple[3])>>

\* the two list shapes detect accepts: [[...]] and [...]
ScoreResponses ==
    {JList(<<JList(ScoreList(n, t))>>) : n \in NameSchemes, t \in Triples}
        \cup {JList(ScoreList(n, t)) : n \in NameSchemes, t \in Triples}

ErrorResponses == {JDict({"error"}), JDict({"error", "estimated_time"})}
EmptyResponses == {JList(<< >>), JDict({}), JNull}

\* everything else
OtherResponses ==
    { JDict({"detail"}),                                      \* object without error
      JStr, JNum,
      JList(<<JStr>>),
      JList(<<ItemNoLabel(80)>>),                             \* flat, item lacks label
      JList(<<JList(<<ItemNoLabel(80)>>)>>),                  \* nested, item lacks label
      JList(<<ItemNoScore("positive")>>),                     \* item lacks score
      JList(<<Item("positive", 80), JStr>>),
      JList(<<JList(<< >>)>>),                                \* [[]]
      JList(<<JList(<<Item("positive", 80)>>)>>),             \* one class only
      JList(<<JList(<<Item("negative", 80), Item("neutral", 40)>>)>>),
      JList(<<Item("joy", 80), Item("anger", 40), Item("fear", 0)>>) }

Responses == {RequestFailed} \cup ErrorResponses \cup EmptyResponses
                \cup ScoreResponses \cup OtherResponses

ProbeTexts ==
    { << >>, <<" ">>, <<"o">>, <<"S", "o", "!">>, <<"?", " ", " ", "o">>,
      <<"!", "!", "!", "!", "!", "?">>, <<"!", "!", "!", "!", "S", "o", "?">> }

ProbeResponses ==
    { JDict({"error"}),
      JList(<<JList(ScoreList(CanonicalNames, <<80, 40, 0>>))>>),
      JList(ScoreList(OrdinalNames, <<0, 40, 100>>)) }

\* every text with a few answers, and a few texts with every answer
DetectInputs(n) == (Texts(n) \X ProbeResponses) \cup (ProbeTexts \X Responses)

NotRun == [outcome |-> "none", exc |-> "", label |-> "", intensity |-> 0,
           primary_score |-> 0, bonus |-> 0, calls |-> 0, sent |-> << >>]

\* the variables of detect in the specifications that do not use them
DetectIdle == dText = << >> /\ dResp = JNull /\ dOut = NotRun

\* the variables of the modulator in the specifications that do not use them
ModIdle ==
    /\ mProfile = None /\ mEmotion = None
    /\ mOut = [rate |-> 0, volume |-> 0, pitch |-> None] /\ mSsml = None

\* the engine in the specifications that do not use it
EngineIdle == engine = << >> /\ pitchSupported = FALSE /\ req = << >> /\ files = << >>

InitDetect ==
    /\ \E in \in DetectInputs(MaxTextLen) : dText = in[1] /\ dResp = in[2]
    /\ dOut = NotRun
    /\ ModIdle
    /\ EngineIdle

DetectCall ==
    /\ dOut = NotRun
    /\ dOut' = Detect(dText, dResp)
    /\ UNCHANGED <<dText, dResp, modVars, engineVars>>

NextDetect == DetectCall

SpecDetect == InitDetect /\ [][NextDetect]_vars

----------------------------------------------------------------------------
(* Properties of detect (SpecDetect).  They are stated on the raw inputs:  *)
(* the characters of the text and the scores the classifier sent.          *)

DetectRan == dOut # NotRun

OnlyWhitespace(text) == \A i \in DOMAIN text : text[i] \in {" "}

\* the score the classifier gave the i-th class of <<positive, neutral, negative>>
SentScores == IF dResp.items[1].kind = "list" THEN dResp.items[1].items ELSE dResp.items
SentScore(i) == SentScores[i].score
SentScoreOf(label) ==
    CASE label = "positive" -> SentScore(1)
      [] label = "neutral" -> SentScore(2)
      [] label = "negative" -> SentScore(3)

\* occurrences counted by position over the text as given, letters compared
\* without regard to case
SameLetter(a, b) == a = b \/ (a = "S" /\ b = "s") \/ (a = "O" /\ b = "o")
OccursAt(text, w, i) ==
    /\ i + Len(w) - 1 <= Len(text)
    /\ \A k \in 1..Len(w) : SameLetter(text[i + k - 1], w[k])
Occurrences(text, w) == Cardinality({i \in DOMAIN text : OccursAt(text, w, i)})
EmphasisOccurrences(text) ==
    Occurrences(text, <<"r","e","a","l","l","y">>) + Occurrences(text, <<"v","e","r","y">>)
        + Occurrences(text, <<"s","o">>)
        + Occurrences(text, <<"e","x","t","r","e","m","e","l","y">>)
        + Occurrences(text, <<"i","n","c","r","e","d","i","b","l","y">>)
CueSum(text) ==
    6 * Cardinality({i \in DOMAIN text : text[i] = "!"})
        + 5 * EmphasisOccurrences(text)
        + (IF \E i \in DOMAIN text : text[i] = "?" THEN 3 ELSE 0)
ExpectedBonus(text) == IF CueSum(text) < 30 THEN CueSum(text) ELSE 30

\* C4: for every text that is empty or only whitespace, detect returns exactly
\* {label: neutral, intensity: 0.0} and makes no call to the classifier.
C4_BlankIsNeutralWithoutCall ==
    (DetectRan /\ OnlyWhitespace(dText)) =>
        /\ dOut.outcome = "return"
        /\ dOut.label = "neutral"
        /\ dOut.intensity = 0
        /\ dOut.calls = 0

\* a whitespace-only text of two characters went through detect while the
\* classifier stood ready to answer "positive"
C4_Witness ==
    /\ DetectRan
    /\ Len(dText) >= 2 /\ OnlyWhitespace(dText)
    /\ dResp = JList(<<JList(ScoreList(CanonicalNames, <<80, 40, 0>>))>>)
    /\ dOut.label = "neutral"

\* C5: for every non-blank text, a classifier response that carries an
\* application-level error field makes detect raise the classification error
\* (RuntimeError in the code); it never returns an EmotionResult.
C5_ErrorFieldRaises ==
    (DetectRan /\ ~OnlyWhitespace(dText) /\ dResp.kind = "dict" /\ "error" \in dResp.keys) =>
        /\ dOut.outcome = "raise"
        /\ dOut.exc = "RuntimeError"

\* an error object with a second field was answered to a non-blank text
C5_Witness ==
    /\ DetectRan
    /\ ~OnlyWhitespace(dText)
    /\ dResp = JDict({"error", "estimated_time"})
    /\ dOut.outcome = "raise"

\* C6: every classifier response that is not one of the handled shapes (three
\* class scores, an error object, an empty result) makes detect raise the
\* classification error: never a result from defaulted scores, never another
\* kind of error.
C6_OtherShapesRejected ==
    (/\ DetectRan
     /\ ~OnlyWhitespace(dText)
     /\ dResp # RequestFailed
     /\ dResp \notin ScoreResponses \cup ErrorResponses \cup EmptyResponses) =>
        /\ dOut.outcome = "raise"
        /\ dOut.exc = "RuntimeError"

\* C9: for every triple of class scores, the label is a class whose score is
\* >= both other scores, ties go positive > negative > neutral, and
\* primary_score is the score of the chosen label.
C9_WinnerAndTieBreak ==
    (DetectRan /\ ~OnlyWhitespace(dText) /\ dResp \in ScoreResponses) =>
        /\ dOut.outcome = "return"
        /\ dOut.label \in {"positive", "neutral", "negative"}
        /\ \A i \in 1..3 : SentScoreOf(dOut.label) >= SentScore(i)
        /\ dOut.label = "negative" => SentScore(1) < SentScore(3)
        /\ dOut.label = "neutral" => SentScore(1) < SentScore(2) /\ SentScore(3) < SentScore(2)
        /\ dOut.primary_score = SentScoreOf(dOut.label)

\* positive and negative tied for the maximum above neutral, and detect chose
\* positive
C9_Witness ==
    /\ DetectRan
    /\ ~OnlyWhitespace(dText)
    /\ dResp \in ScoreResponses
    /\ SentScore(1) = SentScore(3) /\ SentScore(2) < SentScore(1)
    /\ dOut.label = "positive"

\* C10: for non-blank text and class scores in [0,1], intensity =
\* min(1.0, primary_score + bonus) with bonus = min(0.3, 0.06*exclamations +
\* 0.05*emphasis occurrences + 0.03 if a question mark is present); so it lies
\* in [0,1], is never below the winning score and exceeds it by at most 0.3.
C10_IntensityFormula ==
    (DetectRan /\ ~OnlyWhitespace(dText) /\ dResp \in ScoreResponses) =>
        LET best == CHOOSE m \in {SentScore(1), SentScore(2), SentScore(3)} :
                        \A i \in 1..3 : m >= SentScore(i)
            sum == best + ExpectedBonus(dText)
        IN  /\ dOut.outcome = "return"
            /\ dOut.intensity = (IF sum < 100 THEN sum ELSE 100)
            /\ dOut.intensity >= 0 /\ dOut.intensity <= 100
            /\ dOut.intensity >= best
            /\ dOut.intensity - best <= 30

\* both caps bind: the cues add up to more than 0.3 and the winning score plus
\* 0.3 exceeds 1.0
C10_Witness ==
    /\ DetectRan
    /\ dResp \in ScoreResponses
    /\ CueSum(dText) > 30
    /\ EmphasisOccurrences(dText) >= 1
    /\ dOut.primary_score = 80
    /\ dOut.intensity = 100

----------------------------------------------------------------------------
(* Voice profiles (config.py), the default table and the modulator         *)
(* (service.py).                                                           *)

VoiceProfile(label, rate, volume, pitch, rate_range, volume_range, pitch_range) ==
    [label |-> label, rate |-> rate, volume |-> volume, pitch |-> pitch,
     rate_delta_range |-> rate_range, volume_delta_range |-> volume_range,
     pitch_delta_range |-> pitch_range]

\* _default_mapping(): volumes and volume ranges in ten-thousandths
DefaultMapping ==
    [l \in {"positive", "neutral", "negative"} |->
        CASE l = "positive" ->
                VoiceProfile("positive", 186, 9500, Some(70),
                             <<0, 45>>, <<0, 1200>>, Some(<<0, 12>>))
          [] l = "neutral" ->
                VoiceProfile("neutral", 175, 8800, Some(64),
                             <<-5, 5>>, <<-400, 400>>, Some(<<-3, 4>>))
          [] l = "negative" ->
                VoiceProfile("negative", 160, 8000, Some(58),
                             <<0, -40>>, <<0, -1500>>, Some(<<0, -12>>))]

\* EmotionMapping.get: the profile, or None where the code raises KeyError
\* (labels of EmotionResult are lower case already)
MappingGet(mapping, label) ==
    IF label \in DOMAIN mapping THEN Some(mapping[label]) ELSE None

EmotionResult(label, intensity) == [label |-> label, intensity |-> intensity]

\* Python's round() of the rational n / d (d > 0): to nearest, halves to even
RoundHalfEven(n, d) ==
    LET q == n \div d
        r == n % d
    IN  IF 2 * r < d THEN q
        ELSE IF 2 * r > d THEN q + 1
        ELSE IF q % 2 = 0 THEN q ELSE q + 1

InterpolateStartOnly(delta_range, intensity) == delta_range[1] * One

\* _interpolate: start + (end - start) * intensity, times One
Interpolate(delta_range, intensity) ==
    delta_range[1] * One + (delta_range[2] - delta_range[1]) * intensity

\* modulated_rate = max(120, int(round(profile.rate + rate_delta)))
ModulatedRate(profile, intensity) ==
    Max(120, RoundHalfEven(profile.rate * One
                              + Interpolate(profile.rate_delta_range, intensity), One))

ModulatedVolumeNoCeiling(profile, intensity) ==
    Max(3000, (profile.volume * One
                 + Interpolate(profile.volume_delta_range, intensity)) \div One)

\* modulated_volume = max(0.3, min(1.0, profile.volume + volume_delta)); the
\* division is exact for delta ranges given to two decimals of a percent
ModulatedVolume(profile, intensity) ==
    Max(3000, Min(VolOne, (profile.volume * One
                             + Interpolate(profile.volume_delta_range, intensity)) \div One))

\* pitch = profile.pitch, replaced by int(max(30, round(pitch + pitch_delta)))
\* when the profile has both a pitch and a pitch delta range
ModulatedPitch(profile, intensity) ==
    IF profile.pitch # None /\ profile.pitch_delta_range # None
    THEN Some(Max(30, RoundHalfEven(profile.pitch[1] * One
                        + Interpolate(profile.pitch_delta_range[1], intensity), One)))
    ELSE profile.pitch

\* EmpathyEngine._modulate_parameters
ModulateParameters(profile, emotion) ==
    [rate |-> ModulatedRate(profile, emotion.intensity),
     volume |-> ModulatedVolume(profile, emotion.intensity),
     pitch |-> ModulatedPitch(profile, emotion.intensity)]

----------------------------------------------------------------------------
(* The SSML composer (ssml.py).  The document is a record of the prosody   *)
(* attributes, the emphasis level, the break and the escaped text.         *)

\* _rate_percentage
RatePercentage(baseline, applied) ==
    IF baseline <= 0 THEN 100
    ELSE Max(50, Min(200, RoundHalfEven(applied * 100, baseline)))

\* _volume_descriptor
VolumeDescriptor(volume) ==
    IF volume >= 9500 THEN "x-loud"
    ELSE IF volume >= 8500 THEN "loud"
    ELSE IF volume >= 7000 THEN "medium"
    ELSE IF volume >= 5000 THEN "soft"
    ELSE "x-soft"

\* _pitch_step: "default", or sign, semitone and the suffix "st"
PitchDefault == [sign |-> "", semitone |-> 0, suffix |-> "default"]
PitchStep(profile_pitch, applied_pitch) ==
    IF profile_pitch = None \/ applied_pitch = None THEN PitchDefault
    ELSE LET offset == applied_pitch[1] - profile_pitch[1]
             semitone == Max(-20, Min(20, offset))
         IN  IF offset = 0 THEN PitchDefault
             ELSE [sign |-> IF semitone > 0 THEN "+" ELSE "",
                   semitone |-> semitone, suffix |-> "st"]

\* html.escape on one character
EscapeChar(c) ==
    CASE c = "&" -> "&amp;"
      [] c = "<" -> "&lt;"
      [] c = ">" -> "&gt;"
      [] c = "\"" -> "&quot;"
      [] c = "'" -> "&#x27;"
      [] OTHER -> c

\* safe_text = html.escape(text.strip())
SafeText(text) == LET t == Strip(text) IN [i \in 1..Len(t) |-> EscapeChar(t[i])]

\* SSMLComposer.build
Build(text, emotion, profile, applied_rate, applied_volume, applied_pitch) ==
    [rate |-> RatePercentage(profile.rate, applied_rate),
     volume |-> VolumeDescriptor(applied_volume),
     pitch |-> PitchStep(profile.pitch, applied_pitch),
     emphasis |-> IF emotion.intensity >= 65 THEN "strong"
                  ELSE IF emotion.intensity >= 35 THEN "moderate"
                  ELSE "none",
     pause |-> IF emotion.label = "negative" THEN "250ms"
               ELSE IF emotion.label = "positive" /\ emotion.intensity >= 50 THEN "medium"
               ELSE "none",
     text |-> SafeText(text)]

----------------------------------------------------------------------------
(* SpecMod: _modulate_parameters applied to a profile of the default       *)
(* table and an emotion of that label, every intensity in hundredths.      *)

NotModulated == [rate |-> 0, volume |-> 0, pitch |-> None]

InitMod ==
    /\ \E l \in DOMAIN DefaultMapping, i \in 0..One :
          /\ mProfile = DefaultMapping[l]
          /\ mEmotion = EmotionResult(l, i)
    /\ mOut = NotModulated
    /\ mSsml = None
    /\ DetectIdle
    /\ EngineIdle

Modulate ==
    /\ mOut = NotModulated
    /\ mOut' = ModulateParameters(mProfile, mEmotion)
    /\ UNCHANGED <<mProfile, mEmotion, mSsml, detectVars, engineVars>>

ComposeModulated ==
    /\ mOut # NotModulated
    /\ mSsml = None
    /\ mSsml' = Some(Build(<<"o">>, mEmotion, mProfile, mOut.rate, mOut.volume, mOut.pitch))
    /\ UNCHANGED <<mProfile, mEmotion, mOut, detectVars, engineVars>>

NextMod == Modulate \/ ComposeModulated

SpecMod == InitMod /\ [][NextMod]_vars

\* C8: for every profile of the default table and every intensity in [0,1],
\* the modulator's rate is >= 120, its volume lies in [0.3, 1.0], its pitch,
\* when present, is >= 30, and pitch is present exactly when the profile
\* defines both a baseline pitch and a pitch delta range.
C8_ModulatedBounds ==
    mOut # NotModulated =>
        /\ mOut.rate >= 120
        /\ mOut.volume >= 3000 /\ mOut.volume <= 10000
        /\ mOut.pitch # << >> => mOut.pitch[1] >= 30
        /\ mOut.pitch # << >> <=>
              (mProfile.pitch # << >> /\ mProfile.pitch_delta_range # << >>)

\* the positive profile at an intensity where baseline plus delta exceeds 1.0:
\* the volume ceiling binds
C8_Witness ==
    /\ mOut # NotModulated
    /\ mProfile.label = "positive"
    /\ mProfile.volume * 100 + 1200 * mEmotion.intensity > 1000000
    /\ mOut.volume = 10000
    /\ mOut.pitch # << >>

----------------------------------------------------------------------------
(* The synthesizer (speech.py) and the orchestrator (service.py).          *)
(* engine is the one pyttsx3 driver of a SpeechSynthesizer: its "rate",    *)
(* "volume" and "pitch" properties.  req[t] is the frame of the call that  *)
(* thread t is executing: speak_to_file (and the synthesize it calls) in   *)
(* Spec, where the threads of the HTTP layer share api._engine, and a      *)
(* direct SpeechSynthesizer.synthesize in SpecSeq.                         *)

Threads == {1, 2}

\* pyttsx3.init(): the properties a fresh driver reports
DriverDefaults == [rate |-> 200, volume |-> 10000, pitch |-> 50]

\* self._default_rate, self._default_volume (read once, in __init__)
DefaultRate == DriverDefaults.rate
DefaultVolume == DriverDefaults.volume

IdleFrame ==
    [pc |-> "idle", via |-> "", text |-> << >>, filename |-> None,
     detected |-> NotRun, profile |-> None, params |-> None, args |-> None,
     rendered |-> None, composed |-> None, response |-> None, exc |-> "",
     driverOps |-> 0]

\* _build_filename: "empathy_" + label + ".wav" (a canonical label holds no
\* space for replace(" ", "_") to change)
BuildFilename(label) == <<"empathy_", label, ".wav">>

\* output_filename = filename or self._build_filename(emotion.label)
OutputFilenameLabelOnly(filename, label) == BuildFilename(label)

\* output_filename = filename or self._build_filename(emotion.label)
OutputFilename(filename, label) ==
    IF filename = None \/ filename = Some(<< >>) THEN BuildFilename(label)
    ELSE filename[1]

\* destination = self._output_directory / output_filename: a path is the
\* sequence of its parts, and joining an absolute path ("/" first) gives that
\* path alone
Destination(filename, label) ==
    LET name == OutputFilename(filename, label) IN
    IF name[1] = "/" THEN name ELSE <<"outputs">> \o name

\* what the driver writes: the text spoken with the properties it holds
Audio(text, properties) ==
    [text |-> text, rate |-> properties.rate, volume |-> properties.volume,
     pitch |-> properties.pitch, complete |-> TRUE]

\* a file the driver left incomplete
Truncated == [text |-> << >>, rate |-> 0, volume |-> 0, pitch |-> 0, complete |-> FALSE]

\* the file system after the file at path is created or overwritten
WriteFile(fs, path, audio) ==
    [q \in DOMAIN fs \cup {path} |-> IF q = path THEN audio ELSE fs[q]]

\* bounded_volume = max(0.0, min(1.0, float(volume)))
BoundedVolume(volume) == Max(0, Min(VolOne, volume))

AfterDetectSwallowed(frame, out) ==
    IF out.outcome = "raise"
    THEN [frame EXCEPT !.detected = [out EXCEPT !.label = "neutral"], !.pc = "lookup"]
    ELSE [frame EXCEPT !.detected = out, !.pc = "lookup"]

\* the frame after self._detector.detect(text) returned or raised
AfterDetect(frame, out) ==
    IF out.outcome = "raise"
    THEN [frame EXCEPT !.detected = out, !.pc = "failed", !.exc = out.exc]
    ELSE [frame EXCEPT !.detected = out, !.pc = "lookup"]

ComposerArgsBaseline(frame) ==
    [applied_rate |-> frame.profile[1].rate,
     applied_volume |-> frame.profile[1].volume,
     applied_pitch |-> frame.profile[1].pitch]

\* the applied_* arguments speak_to_file hands to the composer
ComposerArgs(frame) ==
    [applied_rate |-> frame.params[1].rate,
     applied_volume |-> frame.params[1].volume,
     applied_pitch |-> frame.params[1].pitch]

\* the EmpathyResponse speak_to_file returns
EmpathyResponse(frame) ==
    [audio_path |-> frame.args[1].destination,
     emotion |-> EmotionResult(frame.detected.label, frame.detected.intensity),
     voice_profile |-> frame.profile[1],
     applied_rate |-> frame.params[1].rate,
     applied_volume |-> frame.params[1].volume,
     applied_pitch |-> frame.params[1].pitch,
     ssml |-> frame.composed[1].ssml]

\* speak_to_file is entered
SpeakToFile(t, text, filename) ==
    /\ req[t].pc = "idle"
    /\ req' = [req EXCEPT ![t] = [IdleFrame EXCEPT !.pc = "detect", !.via = "speak",
                                                    !.text = text, !.filename = filename]]
    /\ UNCHANGED <<engine, pitchSupported, files, detectVars, modVars>>

\* emotion = self._detector.detect(text)
SpeakDetect(t, resp) ==
    /\ req[t].pc = "detect"
    /\ req' = [req EXCEPT ![t] = AfterDetect(req[t], Detect(req[t].text, resp))]
    /\ UNCHANGED <<engine, pitchSupported, files, detectVars, modVars>>

\* profile = self._mapping.get(emotion.label); rate, volume, pitch =
\* self._modulate_parameters(profile, emotion); the destination; and the call
\* of self._synthesizer.synthesize (all local to the request)
SpeakModulate(t) ==
    /\ req[t].pc = "lookup"
    /\ LET emotion == EmotionResult(req[t].detected.label, req[t].detected.intensity)
           profile == MappingGet(DefaultMapping, emotion.label)
           p == ModulateParameters(profile[1], emotion)
       IN  req' = [req EXCEPT ![t] =
                     IF profile = None
                     THEN [req[t] EXCEPT !.pc = "failed", !.exc = "KeyError"]
                     ELSE [req[t] EXCEPT !.pc = "syn_rate",
                                         !.profile = profile,
                                         !.params = Some(p),
                                         !.args = Some([text |-> req[t].text,
                                                        rate |-> Some(p.rate),
                                                        volume |-> Some(p.volume),
                                                        pitch |-> p.pitch,
                                                        destination |->
                                                           Destination(req[t].filename,
                                                                       emotion.label)])]]
    /\ UNCHANGED <<engine, pitchSupported, files, detectVars, modVars>>

\* SpeechSynthesizer.synthesize is called directly
SynthesizeCall(t, rate, volume, pitch) ==
    /\ req[t].pc = "idle"
    /\ req' = [req EXCEPT ![t] =
                 [IdleFrame EXCEPT !.pc = "syn_rate", !.via = "direct",
                                   !.text = <<"o">>,
                                   !.args = Some([text |-> <<"o">>, rate |-> rate,
                                                  volume |-> volume, pitch |-> pitch,
                                                  destination |-> <<"outputs", "out.wav">>])]]
    /\ UNCHANGED <<engine, pitchSupported, files, detectVars, modVars>>

\* if rate is not None: self._engine.setProperty("rate", int(rate))
SynSetRate(t) ==
    /\ req[t].pc = "syn_rate"
    /\ LET rate == req[t].args[1].rate IN
       IF rate # None
       THEN /\ engine' = [engine EXCEPT !.rate = rate[1]]
            /\ req' = [req EXCEPT ![t].pc = "syn_volume", ![t].driverOps = @ + 1]
       ELSE /\ engine' = engine
            /\ req' = [req EXCEPT ![t].pc = "syn_volume"]
    /\ UNCHANGED <<pitchSupported, files, detectVars, modVars>>

\* if volume is not None: self._engine.setProperty("volume", bounded_volume)
SynSetVolume(t) ==
    /\ req[t].pc = "syn_volume"
    /\ LET volume == req[t].args[1].volume IN
       IF volume # None
       THEN /\ engine' = [engine EXCEPT !.volume = BoundedVolume(volume[1])]
            /\ req' = [req EXCEPT ![t].pc = "syn_pitch", ![t].driverOps = @ + 1]
       ELSE /\ engine' = engine
            /\ req' = [req EXCEPT ![t].pc = "syn_pitch"]
    /\ UNCHANGED <<pitchSupported, files, detectVars, modVars>>

\* if pitch is not None: try setProperty("pitch", int(pitch)), except: pass
SynSetPitch(t) ==
    /\ req[t].pc = "syn_pitch"
    /\ LET pitch == req[t].args[1].pitch IN
       IF pitch # None
       THEN /\ engine' = IF pitchSupported THEN [engine EXCEPT !.pitch = pitch[1]]
                         ELSE engine
            /\ req' = [req EXCEPT ![t].pc = "syn_render", ![t].driverOps = @ + 1]
       ELSE /\ engine' = engine
            /\ req' = [req EXCEPT ![t].pc = "syn_render"]
    /\ UNCHANGED <<pitchSupported, files, detectVars, modVars>>

\* save_to_file(text, destination); runAndWait(): the driver renders the text
\* with the properties it holds now
SynRender(t) ==
    /\ req[t].pc = "syn_render"
    /\ req' = [req EXCEPT ![t].pc = "syn_restore_rate",
                          ![t].rendered = Some(engine),
                          ![t].driverOps = @ + 1]
    /\ files' = WriteFile(files, req[t].args[1].destination,
                          Audio(req[t].args[1].text, engine))
    /\ UNCHANGED <<engine, pitchSupported, detectVars, modVars>>

\* save_to_file or runAndWait raises: synthesize is left at once; the driver
\* may have written nothing, or an incomplete file
SynRenderFails(t) ==
    /\ req[t].pc = "syn_render"
    /\ req' = [req EXCEPT ![t].pc = "failed", ![t].exc = "RenderError",
                          ![t].driverOps = @ + 1]
    /\ \/ files' = files
       \/ files' = WriteFile(files, req[t].args[1].destination, Truncated)
    /\ UNCHANGED <<engine, pitchSupported, detectVars, modVars>>

\* self._engine.setProperty("rate", self._default_rate)
SynRestoreRate(t) ==
    /\ req[t].pc = "syn_restore_rate"
    /\ engine' = [engine EXCEPT !.rate = DefaultRate]
    /\ req' = [req EXCEPT ![t].pc = "syn_restore_volume", ![t].driverOps = @ + 1]
    /\ UNCHANGED <<pitchSupported, files, detectVars, modVars>>

\* self._engine.setProperty("volume", self._default_volume); return
SynRestoreVolume(t) ==
    /\ req[t].pc = "syn_restore_volume"
    /\ engine' = [engine EXCEPT !.volume = DefaultVolume]
    /\ req' = [req EXCEPT ![t].pc = IF req[t].via = "speak" THEN "compose" ELSE "returned",
                          ![t].driverOps = @ + 1]
    /\ UNCHANGED <<pitchSupported, files, detectVars, modVars>>

\* ssml = self._composer.build(...)
SpeakCompose(t) ==
    /\ req[t].pc = "compose"
    /\ LET a == ComposerArgs(req[t])
           emotion == EmotionResult(req[t].detected.label, req[t].detected.intensity)
       IN  req' = [req EXCEPT ![t].pc = "respond",
                              ![t].composed =
                                 Some([args |-> a,
                                       ssml |-> Build(req[t].text, emotion, req[t].profile[1],
                                                      a.applied_rate, a.applied_volume,
                                                      a.applied_pitch)])]
    /\ UNCHANGED <<engine, pitchSupported, files, detectVars, modVars>>

\* return EmpathyResponse(...)
SpeakReturn(t) ==
    /\ req[t].pc = "respond"
    /\ req' = [req EXCEPT ![t].pc = "done", ![t].response = Some(EmpathyResponse(req[t]))]
    /\ UNCHANGED <<engine, pitchSupported, files, detectVars, modVars>>

\* the caller has its response or its exception; the thread is free again
Finish(t) ==
    /\ req[t].pc \in {"done", "failed", "returned"}
    /\ req' = [req EXCEPT ![t] = IdleFrame]
    /\ UNCHANGED <<engine, pitchSupported, files, detectVars, modVars>>

\* the requests of Spec
OrchTexts == { <<"S", "o", "!", "!">> }
OrchFilenames == { None }
OrchResponses ==
    { RequestFailed, JDict({"error"}), JList(<< >>), JList(<<JStr>>),
      JList(<<JList(ScoreList(CanonicalNames, <<80, 40, 0>>))>>),
      JList(ScoreList(OrdinalNames, <<0, 40, 100>>)) }

\* the arguments of SpecSeq's direct calls
SeqRates == {None, Some(120), Some(231)}
SeqVolumes == {None, Some(6500), Some(12000)}
SeqPitches == {None, Some(46), Some(82)}

InitEngine ==
    /\ engine = DriverDefaults
    /\ pitchSupported \in BOOLEAN
    /\ req = [t \in Threads |-> IdleFrame]
    /\ files = << >>
    /\ DetectIdle
    /\ ModIdle

\* Spec: the threads of the HTTP layer run speak_to_file on the shared engine
Next ==
    \E t \in Threads :
        \/ \E text \in OrchTexts, filename \in OrchFilenames : SpeakToFile(t, text, filename)
        \/ \E resp \in OrchResponses : SpeakDetect(t, resp)
        \/ SpeakModulate(t)
        \/ SynSetRate(t)
        \/ SynSetVolume(t)
        \/ SynSetPitch(t)
        \/ SynRender(t)
        \/ SynRenderFails(t)
        \/ SynRestoreRate(t)
        \/ SynRestoreVolume(t)
        \/ SpeakCompose(t)
        \/ SpeakReturn(t)
        \/ Finish(t)

Spec == InitEngine /\ [][Next]_vars

\* SpecSeq: one caller makes direct synthesize calls, one after the other, and
\* every call returns normally (the driver writes the audio)
NextSeq ==
    \/ \E rate \in SeqRates, volume \in SeqVolumes, pitch \in SeqPitches :
          SynthesizeCall(1, rate, volume, pitch)
    \/ SynSetRate(1)
    \/ SynSetVolume(1)
    \/ SynSetPitch(1)
    \/ SynRender(1)
    \/ SynRestoreRate(1)
    \/ SynRestoreVolume(1)
    \/ Finish(1)

SpecSeq == InitEngine /\ [][NextSeq]_vars

----------------------------------------------------------------------------
(* Properties of the shared engine (Spec) and of sequential synthesize     *)
(* calls (SpecSeq).                                                        *)

\* C1: when synthesis requests run concurrently against the one shared
\* engine, every render is performed with exactly the rate, volume and pitch
\* of its own request, never with values another request set or restored
\* (pitch where the driver accepts one).
C1_RenderUsesOwnParameters ==
    \A t \in Threads :
        req[t].rendered # << >> =>
            /\ req[t].rendered[1].rate = req[t].args[1].rate[1]
            /\ req[t].rendered[1].volume = req[t].args[1].volume[1]
            /\ pitchSupported => req[t].rendered[1].pitch = req[t].args[1].pitch[1]

\* C2: after sequential synthesize calls that each return normally, rate,
\* volume and pitch of the engine are back at the driver's defaults, and a
\* call made with pitch=None renders with the driver's default pitch.
C2_DefaultsRestored ==
    /\ req[1].pc = "returned" =>
          /\ engine.rate = 200
          /\ engine.volume = 10000
          /\ engine.pitch = 50
    /\ (req[1].rendered # << >> /\ req[1].args[1].pitch = << >>) =>
          req[1].rendered[1].pitch = 50

\* C3: when the classification step of speak_to_file fails, the request
\* fails as a whole: one classification attempt was made, the driver and the
\* composer were never invoked and no EmpathyResponse is returned.
C3_FailedClassificationFailsRequest ==
    \A t \in Threads :
        req[t].detected.outcome = "raise" =>
            /\ req[t].pc = "failed"
            /\ req[t].detected.calls = 1
            /\ req[t].driverOps = 0
            /\ req[t].args = << >>
            /\ req[t].rendered = << >>
            /\ req[t].composed = << >>
            /\ req[t].response = << >>

\* a request failed in classification while the other thread was inside
\* synthesize
C3_Witness ==
    \E t \in Threads, u \in Threads :
        /\ t # u
        /\ req[t].pc = "failed"
        /\ req[t].detected.outcome = "raise"
        /\ req[t].detected.exc = "RuntimeError"
        /\ req[u].pc = "syn_render"

\* C7: in every successful speak_to_file call the (rate, volume, pitch) given
\* to the driver, the applied_* values given to the composer and the
\* applied_* fields of the response are the one output of modulating the
\* looked-up profile by the detected emotion, and the response carries that
\* emotion and that profile.
C7_SameParametersEverywhere ==
    \A t \in Threads :
        req[t].pc = "done" =>
            LET f == req[t]
                emotion == [label |-> f.detected.label, intensity |-> f.detected.intensity]
                profile == DefaultMapping[f.detected.label]
                m == ModulateParameters(profile, emotion)
                r == f.response[1]
            IN  /\ f.args[1].rate = <<m.rate>>
                /\ f.args[1].volume = <<m.volume>>
                /\ f.args[1].pitch = m.pitch
                /\ f.composed[1].args.applied_rate = m.rate
                /\ f.composed[1].args.applied_volume = m.volume
                /\ f.composed[1].args.applied_pitch = m.pitch
                /\ r.applied_rate = m.rate
                /\ r.applied_volume = m.volume
                /\ r.applied_pitch = m.pitch
                /\ r.emotion = emotion
                /\ r.voice_profile = profile

\* a request came back with parameters that differ from its profile's
\* baseline in rate, volume and pitch
C7_Witness ==
    \E t \in Threads :
        /\ req[t].pc = "done"
        /\ req[t].response[1].applied_rate # req[t].response[1].voice_profile.rate
        /\ req[t].response[1].applied_volume # req[t].response[1].voice_profile.volume
        /\ req[t].response[1].applied_pitch # req[t].response[1].voice_profile.pitch

----------------------------------------------------------------------------
(* The worked example of the positive profile at full intensity (SpecMod). *)

\* C11: the default positive profile is rate 186, volume 0.95, pitch 70 with
\* ranges (0,45), (0.0,0.12), (0,12); at intensity 1.0 the modulator yields
\* rate 231, volume 1.0 and pitch 82, and the SSML built from those values
\* has prosody rate 124 (%), volume "x-loud" and pitch "+12st".
C11_PositiveFullIntensity ==
    /\ DefaultMapping["positive"] =
          VoiceProfile("positive", 186, 9500, Some(70),
                       <<0, 45>>, <<0, 1200>>, Some(<<0, 12>>))
    /\ mProfile = DefaultMapping["positive"] /\ mEmotion.intensity = One
          /\ mOut # NotModulated
       => /\ mOut.rate = 231
          /\ mOut.volume = VolOne
          /\ mOut.pitch = Some(82)
          /\ mSsml # None =>
                /\ mSsml[1].rate = 124
                /\ mSsml[1].volume = "x-loud"
                /\ mSsml[1].pitch = [sign |-> "+", semitone |-> 12, suffix |-> "st"]

\* the positive profile at intensity 1.0, modulated and composed
C11_Witness ==
    /\ mProfile = DefaultMapping["positive"]
    /\ mEmotion = EmotionResult("positive", One)
    /\ mOut # NotModulated
    /\ mSsml # None

----------------------------------------------------------------------------
(* SpecSeqFail: one caller makes direct synthesize calls, one after the    *)
(* other, and save_to_file or runAndWait may raise.                        *)

NextSeqFail ==
    \/ \E rate \in SeqRates, volume \in SeqVolumes, pitch \in SeqPitches :
          SynthesizeCall(1, rate, volume, pitch)
    \/ SynSetRate(1)
    \/ SynSetVolume(1)
    \/ SynSetPitch(1)
    \/ SynRender(1)
    \/ SynRenderFails(1)
    \/ SynRestoreRate(1)
    \/ SynRestoreVolume(1)
    \/ Finish(1)

SpecSeqFail == InitEngine /\ [][NextSeqFail]_vars

\* C12: on every exit of synthesize, the failure of save_to_file or
\* runAndWait included, the engine's rate and volume are back at their
\* defaults, so a later call that gives no rate (no volume) renders with the
\* default rate (volume).
C12_RestoredOnEveryExit ==
    /\ req[1].pc \in {"returned", "failed"} =>
          /\ engine.rate = DefaultRate
          /\ engine.volume = DefaultVolume
    /\ (req[1].rendered # << >> /\ req[1].args[1].rate = << >>) =>
          req[1].rendered[1].rate = DefaultRate
    /\ (req[1].rendered # << >> /\ req[1].args[1].volume = << >>) =>
          req[1].rendered[1].volume = DefaultVolume

----------------------------------------------------------------------------
(* SpecFiles: two requests, one per thread of the HTTP layer, with texts   *)
(* and filenames of their own, each rendering to its destination.          *)

FileTexts == { <<"S", "o", "!", "!">>, <<"o">> }
FileFilenames == { None, Some(<< >>), Some(<<"custom.wav">>), Some(<<"/", "abs.wav">>) }
FileResponses ==
    { JList(<<JList(ScoreList(CanonicalNames, <<80, 40, 0>>))>>),
      JList(ScoreList(OrdinalNames, <<0, 40, 100>>)) }

NextFiles ==
    \E t \in Threads :
        \/ \E text \in FileTexts, filename \in FileFilenames : SpeakToFile(t, text, filename)
        \/ \E resp \in FileResponses : SpeakDetect(t, resp)
        \/ SpeakModulate(t)
        \/ SynSetRate(t)
        \/ SynSetVolume(t)
        \/ SynSetPitch(t)
        \/ SynRender(t)
        \/ SynRestoreRate(t)
        \/ SynRestoreVolume(t)
        \/ SpeakCompose(t)
        \/ SpeakReturn(t)

SpecFiles == InitEngine /\ [][NextFiles]_vars

\* the caller's filename when one is given and not empty, else None
GivenFilename(t) ==
    IF req[t].filename = None \/ req[t].filename = Some(<< >>) THEN None
    ELSE req[t].filename

\* the request of thread t has resolved its destination
Resolved(t) == req[t].via = "speak" /\ req[t].args # None

\* the audio of the request of thread t, once rendered
OwnAudio(t) == Audio(req[t].text, req[t].rendered[1])

\* two requests that agree on the caller's filename, or that both have none
\* and agree on the label
SameNaming(t, u) ==
    /\ GivenFilename(t) = GivenFilename(u)
    /\ GivenFilename(t) = None => req[t].detected.label = req[u].detected.label

C13_State ==
    \A t \in Threads, u \in Threads :
        /\ Resolved(t) /\ GivenFilename(t) = None =>
              req[t].args[1].destination =
                  <<"outputs", "empathy_", req[t].detected.label, ".wav">>
        /\ Resolved(t) /\ Resolved(u) /\ SameNaming(t, u) =>
              req[t].args[1].destination = req[u].args[1].destination
        /\ req[t].pc = "done" =>
              req[t].response[1].audio_path = req[t].args[1].destination
        /\ req[t].pc = "done" /\ req[u].pc = "done" /\ SameNaming(t, u) =>
              req[t].response[1].audio_path = req[u].response[1].audio_path
        /\ Resolved(t) /\ req[t].rendered # None =>
              LET path == req[t].args[1].destination IN
              /\ path \in DOMAIN files
              /\ files[path] \in
                    {OwnAudio(t)} \cup
                    {OwnAudio(v) : v \in {w \in Threads \ {t} :
                                             /\ Resolved(w) /\ req[w].rendered # None
                                             /\ req[w].args[1].destination = path}}

C13_Step ==
    /\ \A t \in Threads :
          req[t].pc = "syn_render" /\ req'[t].pc = "syn_restore_rate" =>
              /\ DOMAIN files' = DOMAIN files \cup {req[t].args[1].destination}
              /\ files'[req[t].args[1].destination] =
                    Audio(req'[t].text, req'[t].rendered[1])
              /\ \A q \in DOMAIN files \ {req[t].args[1].destination} :
                    files'[q] = files[q]
    /\ files' # files =>
          \E t \in Threads : req[t].pc = "syn_render" /\ req'[t].pc = "syn_restore_rate"

\* C13: the destination of a request is the output directory joined with the
\* caller's filename when one is given and not empty, else with
\* empathy_<label>.wav, whatever the text; so two requests without a caller
\* filename and with the same label have one destination, both responses
\* report it as audio_path, every render replaces the file there by its own
\* audio (the file holds the audio of the request that rendered last), and
\* nothing else changes a file.
C13_SharedDestinationLastRenderWins == [] C13_State /\ [][C13_Step]_vars

\* two requests of different texts, no caller filename, the same label: both
\* are done, report the same path, and the file there is the audio of one of
\* them and not of the other
C13_Witness ==
    /\ req[1].pc = "done" /\ req[2].pc = "done"
    /\ GivenFilename(1) = None /\ GivenFilename(2) = None
    /\ req[1].text # req[2].text
    /\ req[1].detected.label = req[2].detected.label
    /\ req[1].response[1].audio_path = req[2].response[1].audio_path
    /\ files[req[1].response[1].audio_path] = OwnAudio(2)
    /\ files[req[1].response[1].audio_path] # OwnAudio(1)

====
